---- MODULE Spec2Model ----
(***************************************************************************)
(* Fraud-alert voice agent (backend/src/agent.py): the two function tools  *)
(* lookup_customer and resolve_fraud_case, the per-call Userdata, and the  *)
(* JSON file fraud_db.json they share.  Every call runs in a job of its    *)
(* own, so the file is the only state the sessions share and their file    *)
(* operations (read, open-for-write, write) interleave.                    *)
(***************************************************************************)
EXTENDS Integers, Sequences, FiniteSets, TLC

VARIABLES
    file,         \* fraud_db.json: [data, len, valid]
    active_case,  \* Userdata.active_case per session: <<>> is None, <<c>> a FraudCase
    pc,           \* where the session's resolve_fraud_case call stands
    data,         \* the local `data` of a resolve_fraud_case call in flight
    ret,          \* the session's last tool call: what it returned, and for which name
    matched,      \* dialogue: the Security Identifiers the caller supplied correctly
    rejected,     \* dialogue: "Verification failed." has been said
    writes,       \* number of save_db calls the session has completed
    lastComplete  \* history: the newest complete collection the file has held

vars == <<file, active_case, pc, data, ret, matched, rejected, writes, lastComplete>>

----------------------------------------------------------------------------
(* Bounds *)

NumSessions == 2   \* concurrent calls
MaxResolves == 2   \* resolve_fraud_case calls that get past the guard, in all
MaxRecords == 3    \* records of a store the name matching is tried on
MaxQueryLen == 3   \* characters of a name given to lookup_customer

Sessions == 1..NumSessions

----------------------------------------------------------------------------
(* Strings that are searched are sequences of one-character strings.       *)

Letters == {"a", "A", "b", " "}

Lower(c) == IF c = "A" THEN "a" ELSE c

lower(s) == [i \in 1..Len(s) |-> Lower(s[i])]

RECURSIVE lstrip(_)
lstrip(s) == IF s # <<>> /\ Head(s) = " " THEN lstrip(Tail(s)) ELSE s

RECURSIVE rstrip(_)
rstrip(s) ==
    IF s # <<>> /\ s[Len(s)] = " " THEN rstrip(SubSeq(s, 1, Len(s) - 1)) ELSE s

strip(s) == rstrip(lstrip(s))

\* Python's `x in y` on strings
InStr(x, y) == \E i \in 0..(Len(y) - Len(x)) : SubSeq(y, i + 1, i + Len(x)) = x

RECURSIVE SeqsUpTo(_, _)
SeqsUpTo(S, n) ==
    IF n = 0 THEN {<<>>}
    ELSE LET shorter == SeqsUpTo(S, n - 1)
         IN  shorter \cup {Append(q, c) : q \in shorter, c \in S}

----------------------------------------------------------------------------
(* FraudCase and the file *)

FraudCase(i, name) ==
    [userName |-> name,
     securityIdentifier |-> ToString(1233 + i),
     cardEnding |-> ToString(4241 + i),
     transactionName |-> "ABC Industry",
     transactionAmount |-> "$1,250.00",
     transactionTime |-> "2:15 AM",
     transactionSource |-> "alibaba.com",
     case_status |-> "pending_review",
     notes |-> ""]

\* json.dump(data, f, indent=4): the number of characters written
ValueLen(c) ==
    Len(c.userName) + Len(c.securityIdentifier) + Len(c.cardEnding)
    + Len(c.transactionName) + Len(c.transactionAmount) + Len(c.transactionTime)
    + Len(c.transactionSource) + Len(c.case_status) + Len(c.notes)

RECURSIVE SumValueLen(_)
SumValueLen(d) == IF d = <<>> THEN 0 ELSE ValueLen(Head(d)) + SumValueLen(Tail(d))

\* "[]" for no record; else "[\n", the records joined by ",\n", "\n]".  A record
\* is 4 spaces, "{\n", nine lines `        "key": "value"` joined by ",\n",
\* "\n    }": 12 + 9 * 14 + 116 (the keys) + 16 + its values.
JsonLen(d) ==
    IF d = <<>> THEN 2
    ELSE 4 + 2 * (Len(d) - 1) + 270 * Len(d) + SumValueLen(d)

Complete(d) == [data |-> d, len |-> JsonLen(d), valid |-> TRUE]

\* open(path, "w") truncates the file
Truncated == [data |-> <<>>, len |-> 0, valid |-> FALSE]

\* f.write at offset 0 of this handle, over whatever the file holds by now:
\* characters of a longer content written since the truncation stay behind it
WriteOver(f, d) ==
    IF JsonLen(d) >= f.len THEN Complete(d)
    ELSE [data |-> <<>>, len |-> f.len, valid |-> FALSE]

NoCall == [op |-> "none", arg |-> <<>>, code |-> "", info |-> <<>>]

JSONDecodeError == "json.JSONDecodeError"

----------------------------------------------------------------------------
(* lookup_customer *)

\* a variant of the test that looks for the stored name in the query only
NameMatchesOneWay(item, name) == InStr(lower(item.userName), name)

\* line 84, the test of the generator
NameMatches(item, name) ==
    InStr(lower(item.userName), name) \/ InStr(name, lower(item.userName))

RECURSIVE next_match(_, _, _)
next_match(d, name, i) ==
    IF i > Len(d) THEN 0
    ELSE IF NameMatches(d[i], name) THEN i
    ELSE next_match(d, name, i + 1)

found_record(d, name) == next_match(d, strip(lower(name)), 1)

FoundResult(name, c) ==
    [op |-> "lookup_customer", arg |-> name, code |-> "FOUND",
     info |-> <<c.securityIdentifier, c.transactionAmount, c.transactionName,
                c.transactionSource, c.transactionTime>>]

\* a variant of the miss that assigns the (empty) result before testing it
lookup_no_match_cleared(s, name) ==
    /\ ret' = [ret EXCEPT ![s] = [op |-> "lookup_customer",
                  arg |-> name, code |-> "NO_MATCH", info |-> <<>>]]
    /\ active_case' = [active_case EXCEPT ![s] = <<>>]
    /\ UNCHANGED file

\* lines 88-89: no record matched
lookup_no_match(s, name) ==
    /\ ret' = [ret EXCEPT ![s] = [op |-> "lookup_customer",
                  arg |-> name, code |-> "NO_MATCH", info |-> <<>>]]
    /\ UNCHANGED <<active_case, file>>

\* a variant of the hit that records the lookup in the stored record
lookup_found_noted(s, name, i) ==
    /\ active_case' = [active_case EXCEPT ![s] = <<file.data[i]>>]
    /\ ret' = [ret EXCEPT ![s] = FoundResult(name, file.data[i])]
    /\ file' = Complete([file.data EXCEPT ![i].notes = "Looked up."])

\* lines 91-99: the record found becomes the session's active_case
lookup_found(s, name, i) ==
    /\ active_case' = [active_case EXCEPT ![s] = <<file.data[i]>>]
    /\ ret' = [ret EXCEPT ![s] = FoundResult(name, file.data[i])]
    /\ UNCHANGED file

lookup_customer(s, name) ==
    /\ pc[s] = "idle"
    /\ IF ~file.valid
       THEN /\ ret' = [ret EXCEPT ![s] = [op |-> "lookup_customer", arg |-> <<>>,
                                          code |-> JSONDecodeError, info |-> <<>>]]
            /\ UNCHANGED <<active_case, file>>
       ELSE LET i == found_record(file.data, name)
            IN  IF i = 0 THEN lookup_no_match(s, name)
                         ELSE lookup_found(s, name, i)
    /\ UNCHANGED <<pc, data, matched, rejected, writes, lastComplete>>

----------------------------------------------------------------------------
(* The dialogue's identity check (the agent's instructions, STEP 2): the   *)
(* caller's answer is compared with the SecurityID of the lookup result.   *)

\* what the caller may answer: the identifiers on file and a wrong one
Identifiers == {"1234", "1235", "9999"}

verify_identity(s, ident) ==
    /\ pc[s] = "idle"
    /\ ret[s].code = "FOUND"
    /\ ~rejected[s]
    /\ IF ident = ret[s].info[1]
       THEN /\ matched' = [matched EXCEPT ![s] = @ \cup {ident}]
            /\ UNCHANGED rejected
       ELSE /\ rejected' = [rejected EXCEPT ![s] = TRUE]
            /\ UNCHANGED matched
    /\ UNCHANGED <<file, active_case, pc, data, ret, writes, lastComplete>>

----------------------------------------------------------------------------
(* resolve_fraud_case *)

\* the calls of STEP 4 of the instructions (lines 191-195)
ResolveArgs == {<<"confirmed_safe", "User confirmed.">>,
                <<"confirmed_fraud", "User denied transaction.">>}

ErrNoCase == "ERROR: No case loaded."

\* a variant of the guard's return that falls through to the final result
resolve_no_case_updated(s, status, notes) ==
    /\ ret' = [ret EXCEPT ![s] = [op |-> "resolve_fraud_case", arg |-> <<>>,
                                  code |-> "UPDATED_SAFE", info |-> <<>>]]
    /\ UNCHANGED <<file, active_case, pc, data, matched, rejected, writes, lastComplete>>

\* lines 112-113: no case loaded
resolve_no_case(s, status, notes) ==
    /\ ret' = [ret EXCEPT ![s] = [op |-> "resolve_fraud_case", arg |-> <<>>,
                                  code |-> ErrNoCase, info |-> <<>>]]
    /\ UNCHANGED <<file, active_case, pc, data, matched, rejected, writes, lastComplete>>

\* a variant of the loop that adds the case to the collection
update_append(d, case, i) == Append(d, case)

\* a variant of the loop without its break
update_all(d, case, i) ==
    [k \in 1..Len(d) |-> IF d[k].userName = case.userName THEN case ELSE d[k]]

\* lines 122-125: the first item with the case's userName is replaced
RECURSIVE update_first(_, _, _)
update_first(d, case, i) ==
    IF i > Len(d) THEN d
    ELSE IF d[i].userName = case.userName THEN [d EXCEPT ![i] = case]
    ELSE update_first(d, case, i + 1)

Started == Cardinality({s \in Sessions : pc[s] # "idle"})

RECURSIVE SumWrites(_)
SumWrites(n) == IF n = 0 THEN 0 ELSE writes[n] + SumWrites(n - 1)

\* lines 112-125: the guard, the update of the session's case, load_db, the loop
resolve_begin(s, status, notes) ==
    /\ pc[s] = "idle"
    /\ IF active_case[s] = <<>>
       THEN resolve_no_case(s, status, notes)
       ELSE LET case == [active_case[s][1] EXCEPT !.case_status = status,
                                                  !.notes = notes]
            IN  /\ Started + SumWrites(NumSessions) < MaxResolves
                /\ active_case' = [active_case EXCEPT ![s] = <<case>>]
                /\ IF ~file.valid
                   THEN /\ ret' = [ret EXCEPT ![s] =
                                     [op |-> "resolve_fraud_case",
                                      arg |-> <<>>,
                                      code |-> JSONDecodeError, info |-> <<>>]]
                        /\ UNCHANGED <<pc, data>>
                   ELSE /\ data' = [data EXCEPT ![s] = update_first(file.data, case, 1)]
                        /\ pc' = [pc EXCEPT ![s] = "loaded"]
                        /\ UNCHANGED ret
                /\ UNCHANGED <<file, matched, rejected, writes, lastComplete>>

\* line 55: open(path, "w")
save_open(s) ==
    /\ pc[s] = "loaded"
    /\ file' = Truncated
    /\ pc' = [pc EXCEPT ![s] = "opened"]
    /\ UNCHANGED <<active_case, data, ret, matched, rejected, writes, lastComplete>>

\* lines 56, 129-132: json.dump and close, then the result
save_write(s) ==
    /\ pc[s] = "opened"
    /\ file' = WriteOver(file, data[s])
    /\ lastComplete' = IF file'.valid THEN file'.data ELSE lastComplete
    /\ writes' = [writes EXCEPT ![s] = @ + 1]
    /\ pc' = [pc EXCEPT ![s] = "idle"]
    /\ data' = [data EXCEPT ![s] = <<>>]
    /\ LET case == active_case[s][1]
       IN  ret' = [ret EXCEPT ![s] =
                     IF case.case_status = "confirmed_fraud"
                     THEN [op |-> "resolve_fraud_case",
                           arg |-> <<>>,
                           code |-> "UPDATED_FRAUD", info |-> <<case.cardEnding>>]
                     ELSE [op |-> "resolve_fraud_case",
                           arg |-> <<>>,
                           code |-> "UPDATED_SAFE", info |-> <<>>]]
    /\ UNCHANGED <<active_case, matched, rejected>>

----------------------------------------------------------------------------
(* Specifications *)

InitWith(stores) ==
    /\ \E d \in stores : file = Complete(d) /\ lastComplete = d
    /\ active_case = [s \in Sessions |-> <<>>]
    /\ pc = [s \in Sessions |-> "idle"]
    /\ data = [s \in Sessions |-> <<>>]
    /\ ret = [s \in Sessions |-> NoCall]
    /\ matched = [s \in Sessions |-> {}]
    /\ rejected = [s \in Sessions |-> FALSE]
    /\ writes = [s \in Sessions |-> 0]

\* the workflow: two customers, "Aa" and "bb"; the name "ab" matches neither
WorkflowStores == {<<FraudCase(1, <<"A", "a">>), FraudCase(2, <<"b", "b">>)>>}
WorkflowQueries == {<<"a">>, <<"b">>, <<"a", "b">>}

Init == InitWith(WorkflowStores)

Lookup == \E s \in Sessions, q \in WorkflowQueries : lookup_customer(s, q)
Verify == \E s \in Sessions, ident \in Identifiers : verify_identity(s, ident)
ResolveBegin ==
    \E s \in Sessions, a \in ResolveArgs : resolve_begin(s, a[1], a[2])
SaveOpen == \E s \in Sessions : save_open(s)
SaveWrite == \E s \in Sessions : save_write(s)

\* the tools alone, as the sessions' jobs may call them
Next == Lookup \/ ResolveBegin \/ SaveOpen \/ SaveWrite

Spec == Init /\ [][Next]_vars

\* the tools together with the dialogue's identity check
NextDialogue == Next \/ Verify

SpecDialogue == Init /\ [][NextDialogue]_vars

\* fraud_db.json is written by whoever maintains the cases as well: the agent
\* never creates it.  Here a record is taken out of the complete file.
RemoveAt(d, i) == SubSeq(d, 1, i - 1) \o SubSeq(d, i + 1, Len(d))

admin_remove(i) ==
    /\ file.valid
    /\ i \in 1..Len(file.data)
    /\ file' = Complete(RemoveAt(file.data, i))
    /\ lastComplete' = file'.data
    /\ UNCHANGED <<active_case, pc, data, ret, matched, rejected, writes>>

AdminRemove == \E i \in 1..MaxRecords : admin_remove(i)

NextStale == Next \/ AdminRemove

SpecStale == Init /\ [][NextStale]_vars

\* lookup_customer as a function of the store and the name: a new session's
\* first call, on every store of up to MaxRecords records with these names and
\* with every name of up to MaxQueryLen characters
StoredNames == {<<"a">>, <<"A", "b">>, <<"b", " ">>, <<"b">>}

StoresOfLen(n) ==
    {[i \in 1..n |-> FraudCase(i, f[i])] : f \in [1..n -> StoredNames]}

MatchStores == UNION {StoresOfLen(n) : n \in 0..MaxRecords}

MatchQueries == SeqsUpTo(Letters, MaxQueryLen)

InitMatch == InitWith(MatchStores)

NextMatch == \E q \in MatchQueries : ret[1] = NoCall /\ lookup_customer(1, q)

SpecMatch == InitMatch /\ [][NextMatch]_vars

\* resolve_fraud_case with any string for `status` (line 106: status is a
\* str; only its description names the two values): the calls of STEP 4 and
\* one with a value the instructions do not name
AnyStatusArgs == ResolveArgs \cup {<<"safe", "User confirmed.">>}

ResolveBeginAny ==
    \E s \in Sessions, a \in AnyStatusArgs : resolve_begin(s, a[1], a[2])

NextAnyStatus == Lookup \/ ResolveBeginAny \/ SaveOpen \/ SaveWrite

SpecAnyStatus == Init /\ [][NextAnyStatus]_vars

\* resolve_fraud_case calls that run one at a time: a call starts only when
\* no other session is between its load_db and the end of its save_db
ResolveAlone == Started = 0 /\ ResolveBegin

NextSeq == Lookup \/ ResolveAlone \/ SaveOpen \/ SaveWrite

SpecSeq == Init /\ [][NextSeq]_vars

\* one session's lookups and resolves on every store of up to MaxRecords
\* records, among them stores with equal names, names that differ only in
\* case and names contained in one another
OneNames == StoredNames \cup {<<"A">>}

OneStores ==
    UNION {{[i \in 1..n |-> FraudCase(i, f[i])] : f \in [1..n -> OneNames]} :
           n \in 0..MaxRecords}

OneQueries == {<<"a">>, <<"b">>, <<"A", "b">>, <<"a", "b", " ">>}

InitOne == InitWith(OneStores)

LookupOne == \E q \in OneQueries : lookup_customer(1, q)

ResolveOne == \E a \in ResolveArgs : resolve_begin(1, a[1], a[2])

SaveOpenOne == save_open(1)

SaveWriteOne == save_write(1)

NextOne == LookupOne \/ ResolveOne \/ SaveOpenOne \/ SaveWriteOne

SpecOne == InitOne /\ [][NextOne]_vars

----------------------------------------------------------------------------
(* Properties *)

Updated == {"UPDATED_SAFE", "UPDATED_FRAUD"}

Resolved == {"confirmed_safe", "confirmed_fraud"}

\* the session's last call was a resolve_fraud_case that returned an UPDATED_
\* result, so active_case[s] still holds the status and notes it was given
Done(s) ==
    /\ pc[s] = "idle"
    /\ ret[s].op = "resolve_fraud_case"
    /\ ret[s].code \in Updated

\* the collection d shows the status and notes of `case` on a record of its name
Shows(d, case) ==
    \E i \in 1..Len(d) :
        /\ d[i].userName = case.userName
        /\ d[i].case_status = case.case_status
        /\ d[i].notes = case.notes

\* C1: a resolve_fraud_case call of a session no lookup_customer of which has
\* succeeded (active_case is still None) returns "ERROR: No case loaded." and
\* leaves the file, and every session's write state, as they were.
C1_NoCaseNoWrite ==
    [][\A s \in Sessions :
          (active_case[s] = <<>> /\ ret'[s] # ret[s]
              /\ ret'[s].op = "resolve_fraud_case")
          => (ret'[s].code = ErrNoCase /\ file' = file /\ pc' = pc
              /\ writes' = writes /\ active_case' = active_case)]_vars

\* C1 witness: a session without a case has had its resolve call refused while
\* another session had a case loaded.
C1_Witness ==
    \E s, t \in Sessions :
        /\ active_case[s] = <<>>
        /\ ret[s].op = "resolve_fraud_case"
        /\ ret[s].code = ErrNoCase
        /\ active_case[t] # <<>>

\* C2: a session writes the store at most once: once it has completed a write,
\* no later resolve_fraud_case call of it gets past the guard again (it would
\* return ALREADY_RESOLVED), whatever its arguments.
C2_Idempotent ==
    \A s \in Sessions :
        (writes[s] >= 1 /\ matched[s] # {})
        => (writes[s] = 1 /\ pc[s] = "idle")

\* C3: a record whose case_status is confirmed_safe or confirmed_fraud in a
\* complete store keeps that status in every later complete store.
C3_StatusMonotone ==
    [][file'.valid =>
        \A i \in 1..Len(lastComplete) :
            (i <= Len(file'.data) /\ lastComplete[i].case_status \in Resolved)
            => file'.data[i].case_status = lastComplete[i].case_status]_vars

\* C4: a session whose caller has matched no identifier never gets past the
\* guard of resolve_fraud_case: it is never inside a store update, has written
\* nothing and has been given no UPDATED_ result.
C4_VerifiedBeforeResolve ==
    \A s \in Sessions :
        (active_case[s] # <<>> /\ matched[s] = {})
        => (pc[s] = "idle" /\ writes[s] = 0 /\ ret[s].code \notin Updated)

\* C5: once a session is rejected it stays rejected, and no resolve_fraud_case
\* call of it starts or completes a store update.
C5_RejectedTerminal ==
    [][\A s \in Sessions :
          rejected[s] => (rejected'[s] /\ pc'[s] = "idle"
                          /\ writes'[s] = writes[s])]_vars

\* C6: when two sessions have each resolved a record of a different name and
\* nobody else has written, the store is complete and shows each record with
\* the status and notes its session gave.
C6_NoLostWrite ==
    \A s, t \in Sessions :
        (/\ s # t
         /\ Done(s) /\ Done(t)
         /\ writes[s] = 1 /\ writes[t] = 1
         /\ active_case[s][1].userName # active_case[t][1].userName
         /\ \A u \in Sessions \ {s, t} : writes[u] = 0 /\ pc[u] = "idle")
        => (/\ file.valid
            /\ Shows(file.data, active_case[s][1])
            /\ Shows(file.data, active_case[t][1]))

\* C7: when several sessions have each resolved, once, a record of the same
\* name and all writes are over, the store is complete (parseable) and the
\* record holds the status and notes of one of them, both of the same session.
Writers == {s \in Sessions : writes[s] > 0}

C7_SameCaseOneWinner ==
    (/\ Cardinality(Writers) >= 2
     /\ \A s \in Sessions : pc[s] = "idle"
     /\ \A s \in Writers : Done(s) /\ writes[s] = 1
     /\ \A s, t \in Writers :
            active_case[s][1].userName = active_case[t][1].userName)
    => (/\ file.valid
        /\ \E s \in Writers : Shows(file.data, active_case[s][1]))

\* C8: no read of the store, by lookup_customer or by resolve_fraud_case, finds
\* anything but a complete collection.
C8_AtomicVisibility == \A s \in Sessions : ret[s].code # JSONDecodeError

\* case-insensitive containment of a stored name N and a query Q, either way
Contains(N, Q) == InStr(lower(N), lower(Q)) \/ InStr(lower(Q), lower(N))

\* the first position of d whose userName has that relation with Q; 0 if none
FirstContaining(d, Q) ==
    IF \E i \in 1..Len(d) : Contains(d[i].userName, Q)
    THEN CHOOSE i \in 1..Len(d) :
             /\ Contains(d[i].userName, Q)
             /\ \A j \in 1..(i - 1) : ~Contains(d[j].userName, Q)
    ELSE 0

\* the last call of session s, a first lookup_customer, gave it the record at
\* position i of the store, or NO_MATCH and no case when i = 0
LookupGave(s, i) ==
    IF i = 0
    THEN ret[s].code = "NO_MATCH" /\ active_case[s] = <<>>
    ELSE /\ ret[s] = FoundResult(ret[s].arg, file.data[i])
         /\ active_case[s] = <<file.data[i]>>

\* C9, as stated: for every store and every query Q, lookup_customer returns the
\* first record whose stored name contains Q or is contained in Q, without
\* regard to case, and NO_MATCH exactly when there is none.
C9_MatchAsStated ==
    \A s \in Sessions :
        ret[s].op = "lookup_customer"
        => LookupGave(s, FirstContaining(file.data, ret[s].arg))

\* C9, amended: the same, with the query stripped of leading and trailing
\* whitespace before it is compared.
C9_MatchStripped ==
    \A s \in Sessions :
        ret[s].op = "lookup_customer"
        => LookupGave(s, FirstContaining(file.data, strip(ret[s].arg)))

\* C9 witness: a lookup of "ab " passed over the first record, "b ", and returned
\* the second, "Ab", which differs from the query in letter case.
C9_Witness ==
    \E s \in Sessions :
        /\ Len(file.data) >= 2
        /\ file.data[1].userName = <<"b", " ">>
        /\ file.data[2].userName = <<"A", "b">>
        /\ ret[s].arg = <<"a", "b", " ">>
        /\ ret[s].code = "FOUND"
        /\ active_case[s] = <<file.data[2]>>

\* C10: a resolve_fraud_case call that finds no record with the userName of its
\* case fails with STALE_CASE before any write: no session is on its way to
\* save_db with a collection that holds no record of its case's name.
C10_StaleCaseFails ==
    \A s \in Sessions :
        pc[s] # "idle"
        => \E i \in 1..Len(data[s]) :
               data[s][i].userName = active_case[s][1].userName

\* C11: a resolve_fraud_case call that fails on the store (load_db raises)
\* leaves the session as it was: its active_case keeps the case_status and
\* notes it had before the call.
C11_FailedResolveLeavesSession ==
    [][\A s \in Sessions :
          (ret'[s].op = "resolve_fraud_case" /\ ret'[s].code = JSONDecodeError)
          => active_case'[s] = active_case[s]]_vars

\* C12: lookup_customer has no effect on the store: every step in which a
\* session's lookup returns (or replaces its active_case) leaves the file as
\* it was, whatever was written before.
C12_LookupLeavesStore ==
    [][\A s \in Sessions :
          ( /\ ret'[s].op = "lookup_customer"
            /\ pc' = pc
            /\ (ret'[s] # ret[s] \/ active_case'[s] # active_case[s]) )
          => file' = file]_vars

\* a lookup found a record that an earlier resolve had changed, and the
\* file is still the complete collection
C12_Witness ==
    /\ ret[1].code = "FOUND"
    /\ active_case[1] # <<>>
    /\ active_case[1][1].case_status = "confirmed_fraud"
    /\ ret[2].code = "UPDATED_FRAUD"
    /\ file.valid
    /\ Shows(file.data, active_case[1][1])

\* the caller's answer matched the SecurityID of the session's active case
Verified(s) ==
    /\ active_case[s] # <<>>
    /\ ~rejected[s]
    /\ active_case[s][1].securityIdentifier \in matched[s]

\* C13: when a verified session's resolve_fraud_case returns, the result is
\* UPDATED_FRAUD with the case's cardEnding for confirmed_fraud and
\* UPDATED_SAFE for confirmed_safe, and the stored record with the case's
\* userName then holds the given status and notes.
C13_ResolveResult ==
    [][\A s \in Sessions :
          (Verified(s) /\ pc[s] = "opened" /\ pc'[s] = "idle")
          => LET case == active_case[s][1]
             IN  /\ ret'[s].code = IF case.case_status = "confirmed_fraud"
                                   THEN "UPDATED_FRAUD" ELSE "UPDATED_SAFE"
                 /\ case.case_status = "confirmed_fraud"
                       => ret'[s].info = <<case.cardEnding>>
                 /\ file'.valid
                 /\ Shows(file'.data, case)]_vars

\* C14: the case_status of every stored record is pending_review,
\* confirmed_safe or confirmed_fraud whatever status resolve_fraud_case is
\* called with, and UPDATED_SAFE is returned only for confirmed_safe.
C14_StatusInRange ==
    /\ file.valid =>
          \A i \in 1..Len(file.data) :
              file.data[i].case_status \in {"pending_review"} \cup Resolved
    /\ \A s \in Sessions :
          ret[s].code = "UPDATED_SAFE"
          => active_case[s][1].case_status = "confirmed_safe"

\* `after` differs from `before` in the case_status and notes of at most one
\* record: same length, same order, every other field and record equal
OwnedFieldsOnly(before, after) ==
    /\ Len(after) = Len(before)
    /\ \E i \in 1..Len(before) :
          \A j \in 1..Len(before) :
              IF j = i
              THEN [after[j] EXCEPT !.case_status = before[j].case_status,
                                    !.notes = before[j].notes] = before[j]
              ELSE after[j] = before[j]

\* C15: when resolve_fraud_case calls run one at a time, the file a call
\* leaves differs from the file it found only in the case_status and notes
\* of one record, also when the session's active_case was loaded before other
\* sessions resolved cases.
C15_OnlyOwnedFields ==
    [][\A s \in Sessions :
          (pc[s] = "opened" /\ pc'[s] = "idle")
          => file'.valid /\ OwnedFieldsOnly(lastComplete, file'.data)]_vars

\* both sessions resolved the same record, session 1 last and differently
C15_Witness ==
    /\ Done(1) /\ writes[1] = 1 /\ writes[2] = 1
    /\ active_case[2] # <<>>
    /\ active_case[1][1].userName = active_case[2][1].userName
    /\ active_case[1][1].case_status # active_case[2][1].case_status
    /\ file.valid
    /\ Shows(file.data, active_case[1][1])

\* C16: a lookup_customer that returns NO_MATCH leaves the session's
\* active_case, and what the session has matched and written, as they were;
\* a session that has no case after a NO_MATCH gets "ERROR: No case loaded."
\* from resolve_fraud_case.
C16_NoMatchLeavesSession ==
    [][\A s \in Sessions :
          /\ (ret'[s] # ret[s] /\ ret'[s].op = "lookup_customer"
                               /\ ret'[s].code = "NO_MATCH")
             => /\ active_case'[s] = active_case[s]
                /\ matched'[s] = matched[s]
                /\ rejected'[s] = rejected[s]
                /\ writes'[s] = writes[s]
                /\ pc'[s] = pc[s]
          /\ (ret[s].code = "NO_MATCH" /\ active_case[s] = <<>>
                               /\ ret'[s].op = "resolve_fraud_case")
             => ret'[s].code = ErrNoCase /\ active_case'[s] = <<>>]_vars

\* session 1 kept its case and its matched identifier through a NO_MATCH;
\* session 2, which never found a record, was refused by resolve_fraud_case
C16_Witness ==
    /\ ret[1].code = "NO_MATCH"
    /\ active_case[1] # <<>>
    /\ Verified(1)
    /\ ret[2].code = ErrNoCase
    /\ active_case[2] = <<>>

\* C17: the record resolve_fraud_case replaces is at the position of the
\* record the session's lookup_customer returned, and no other position
\* changes, for every store (equal names, names differing only in case, names
\* contained in one another).  FraudCase(i, name) gives the record at position
\* i the securityIdentifier 1233 + i, so the identifier of the session's
\* active_case tells the position the lookup returned.
C17_SamePosition ==
    [][\A s \in Sessions :
          (pc[s] = "idle" /\ pc'[s] = "loaded")
          => \A j \in 1..Len(file.data) :
                IF file.data[j].securityIdentifier
                      = active_case[s][1].securityIdentifier
                THEN data'[s][j] = active_case'[s][1]
                ELSE data'[s][j] = file.data[j]]_vars

\* a resolve was written to a store whose first two names differ only in
\* case: the first record is resolved, the second is untouched
C17_Witness ==
    /\ Done(1)
    /\ file.valid
    /\ Len(file.data) >= 2
    /\ file.data[1].userName # file.data[2].userName
    /\ lower(file.data[1].userName) = lower(file.data[2].userName)
    /\ file.data[1].case_status \in Resolved
    /\ file.data[2].case_status = "pending_review"

\* C18: the record a session's resolve_fraud_case changes is one whose
\* securityIdentifier the caller matched in that session: in a session that
\* has matched an identifier, a resolve_fraud_case that reaches the store is
\* working on a case with a matched identifier.
C18_ResolvesMatchedCase ==
    \A s \in Sessions :
        (pc[s] # "idle" /\ matched[s] # {})
        => active_case[s][1].securityIdentifier \in matched[s]

====
